---- MODULE Spec2Model ----
(***************************************************************************)
(* A model of the two example notebooks of the repository.                 *)
(*                                                                         *)
(*   Example A  src/unnamed/part_000: the dataset preparation Wine() and   *)
(*              the two classification runs that follow it.                *)
(*   Example B  src/qiskit/chemistry/declarative_approach.ipynb: one       *)
(*              ground-state-energy run and the printing of its result.    *)
(*                                                                         *)
(* Wine() is modelled on a base dataset with ONE raw feature per row and   *)
(* n = 1 principal component, the only case in which the principal axis    *)
(* needs no eigen-decomposition: it is the feature axis, up to the sign    *)
(* that PCA's svd_flip fixes.  Feature values are integers; a transformed  *)
(* value is kept exactly, as an integer in units of a positive constant    *)
(* of the fitted transform, and the final min-max value as a fraction      *)
(* [num, den] with den > 0.  No floating-point rounding is modelled.       *)
(*                                                                         *)
(* Every row carries the index `row` it has in the base dataset.  The      *)
(* program keeps no such index; it is there to state from where a vector   *)
(* of a partition was drawn.                                               *)
(***************************************************************************)
EXTENDS Integers, Sequences, FiniteSets, TLC

VARIABLES
    data,       \* the base dataset, datasets.load_wine: a sequence of rows
    perm7,      \* the permutation RandomState(7) draws for Len(data) rows
    np_state,   \* the process-wide numpy random state (np.random.seed)
    cur,        \* the last call of Wine: its arguments and what it returned
    repeated,   \* TRUE when the last call had the arguments of the one before
    example,    \* the notebook that runs: "A", "B", or "none"
    nb_pc,      \* the statement the notebook is at
    nb_env,     \* the notebook's global names
    nb_calls,   \* the invocations of the external run entry points, in order
    nb_out      \* what the notebook has printed, in order

wine_vars == <<data, perm7, cur, repeated>>
nb_vars == <<example, nb_pc, nb_env, nb_calls, nb_out>>
vars == <<data, perm7, np_state, cur, repeated, example, nb_pc, nb_env, nb_calls, nb_out>>

(***************************************************************************)
(* Bounds of the model.                                                    *)
(***************************************************************************)
MaxRows == 3     \* rows of the base dataset
MaxVal == 2      \* raw feature values are 0..MaxVal
MaxSize == 2     \* training_size is 0..MaxSize
MaxCalls == 2    \* calls of Wine in one behaviour of SpecRepeat
MaxAbs == 1      \* Example A: the reduced values of a column are -MaxAbs..MaxAbs
MaxAcc == 1      \* Example A: a testing accuracy is one of 0..MaxAcc
MaxEnergy == 1   \* Example B: an energy is one of 0..MaxEnergy
MaxLines == 2    \* Example B: the printable report has 0..MaxLines lines

\* Example A, lines 81-84.
feature_dim == 4
training_dataset_size == 20
testing_dataset_size == 10
random_seed == 10598

(***************************************************************************)
(* Helpers.                                                                *)
(***************************************************************************)
Min(a, b) == IF a <= b THEN a ELSE b
Max(a, b) == IF a >= b THEN a ELSE b
Abs(a) == IF a >= 0 THEN a ELSE -a

RECURSIVE SumSeq(_)
SumSeq(s) == IF s = <<>> THEN 0 ELSE Head(s) + SumSeq(Tail(s))

Range(s) == {s[i] : i \in 1..Len(s)}
SetMin(S) == CHOOSE m \in S : \A y \in S : m <= y
SetMax(S) == CHOOSE m \in S : \A y \in S : m >= y

\* s[lo:hi] of Python, for lo, hi >= 0: the elements at the 0-based
\* positions lo .. min(hi, len(s)) - 1; empty when there are none.
PySlice(s, lo, hi) == SubSeq(s, lo + 1, Min(hi, Len(s)))

\* class_labels = [r'A', r'B', r'C']; enumerate() numbers them 0, 1, 2.
class_labels == <<"A", "B", "C">>
NumClasses == 3
LabelOf(key) == CHOOSE k \in 0..(NumClasses - 1) : class_labels[k + 1] = key

(***************************************************************************)
(* train_test_split(data, target, test_size=test_size, random_state=7).    *)
(* An integer test_size is the number of rows held out.  ShuffleSplit      *)
(* draws one permutation of the row indices from RandomState(random_state);*)
(* the first test_size indices are the testing subset, the rest is the     *)
(* training subset, both in the permutation's order.  A test_size that is  *)
(* not below the number of rows is rejected with a ValueError, and so is   *)
(* test_size = 0 (by train_test_split itself from scikit-learn 0.21 on,    *)
(* before that by the transform of the empty sample_test).                 *)
(***************************************************************************)
\* The permutation the global numpy state would give: used by no code path
\* of Wine, which passes random_state=7.
SplitPermutationGlobal(n_samples) ==
    [i \in 1..n_samples |-> ((i - 1 + np_state) % n_samples) + 1]

SplitPermutation(n_samples) == perm7

SplitFails(n_samples, test_size) == test_size <= 0 \/ test_size >= n_samples

train_test_split(d, test_size) ==
    LET n_samples == Len(d)
        permutation == SplitPermutation(n_samples)
        ind_test == [i \in 1..test_size |-> permutation[i]]
        ind_train == [i \in 1..(n_samples - test_size) |-> permutation[test_size + i]]
    IN  [sample_train |-> [i \in 1..Len(ind_train) |->
                              [row |-> ind_train[i], v |-> d[ind_train[i]].x]],
         sample_test  |-> [i \in 1..Len(ind_test) |->
                              [row |-> ind_test[i], v |-> d[ind_test[i]].x]],
         label_train  |-> [i \in 1..Len(ind_train) |-> d[ind_train[i]].label],
         label_test   |-> [i \in 1..Len(ind_test) |-> d[ind_test[i]].label]]

Values(sample) == [i \in 1..Len(sample) |-> sample[i].v]

(***************************************************************************)
(* StandardScaler().fit(X) and .transform(X).  The fitted mean_ is sum/n   *)
(* and var_ is sumsq/n - (sum/n)^2; they are kept as [n, sum, sumsq].      *)
(* transform gives (x - mean_) / scale_, scale_ = sqrt(var_), or 1 when    *)
(* var_ = 0.  The model keeps n*x - sum, which is that value in units of   *)
(* 1 / (n * scale_), a positive constant of the fitted scaler.             *)
(***************************************************************************)
StandardScalerFit(X) ==
    [n |-> Len(X),
     sum |-> SumSeq(Values(X)),
     sumsq |-> SumSeq([i \in 1..Len(X) |-> X[i].v * X[i].v])]

StandardScalerTransform(scaler, X) ==
    [i \in 1..Len(X) |-> [row |-> X[i].row, v |-> scaler.n * X[i].v - scaler.sum]]

\* What the standardization is fit on: line 39 fits on sample_train.
StdFitInputLeaky(sample_train, sample_test) == sample_train \o sample_test

StdFitInput(sample_train, sample_test) == sample_train

(***************************************************************************)
(* PCA(n_components=1).fit(X) and .transform(X) on one feature.  fit       *)
(* centres X on its mean_ and takes the principal axis, here the feature   *)
(* axis with the sign svd_flip gives it: the sign that makes the centred   *)
(* row of largest absolute value (the first such row) positive.  When all  *)
(* centred rows are 0 the sign is +1.  transform gives                     *)
(* (x - mean_) * components_; the model keeps it in units of 1 / m, m the  *)
(* number of rows fit on.                                                  *)
(***************************************************************************)
\* Features per row of the base dataset the model keeps (load_wine has 13).
n_features == 1

\* PCA.fit raises a ValueError unless
\* 0 <= n_components <= min(n_samples, n_features); the model calls Wine
\* with n >= 1 only.
PCAFails(n_components, n_samples, features) ==
    n_components < 0 \/ n_components > Min(n_samples, features)

PCAFit(X) ==
    LET m == Len(X)
        total == SumSeq(Values(X))
        centred == [i \in 1..m |-> m * X[i].v - total]
        big == SetMax({Abs(centred[i]) : i \in 1..m})
        first == SetMin({i \in 1..m : Abs(centred[i]) = big})
    IN  [m |-> m, total |-> total,
         sign |-> IF centred[first] < 0 THEN -1 ELSE 1]

PCATransform(pca, X) ==
    [i \in 1..Len(X) |->
        [row |-> X[i].row, v |-> pca.sign * (pca.m * X[i].v - pca.total)]]

\* What the reduction is fit on: line 44 fits on the standardized sample_train.
PCAFitInput(sample_train, sample_test) == sample_train

(***************************************************************************)
(* MinMaxScaler((-1, 1)).fit(samples) and .transform(X).  fit takes the    *)
(* minimum and the maximum of samples; transform gives                     *)
(* -1 + (x - data_min) * 2 / (data_max - data_min), with the divisor 1     *)
(* when data_max = data_min.  The value is kept as the fraction            *)
(* [num, den], den > 0.                                                    *)
(***************************************************************************)
MinMaxScalerFit(samples) ==
    [data_min |-> SetMin(Range(Values(samples))),
     data_max |-> SetMax(Range(Values(samples)))]

MinMaxScalerTransform(scaler, X) ==
    LET data_range == scaler.data_max - scaler.data_min
        den == IF data_range = 0 THEN 1 ELSE data_range
    IN  [i \in 1..Len(X) |->
            [row |-> X[i].row,
             v |-> [num |-> 2 * (X[i].v - scaler.data_min) - den, den |-> den]]]

\* samples = np.append(sample_train, sample_test, axis=0), line 49.
MinMaxFitTestOnly(sample_train, sample_test) == sample_test

MinMaxFitSamples(sample_train, sample_test) == sample_train \o sample_test

(***************************************************************************)
(* The slicing of lines 54-56.  sample[label == k, :] keeps, in order, the *)
(* rows whose label is k.                                                  *)
(***************************************************************************)
RECURSIVE MaskRows(_, _, _)
MaskRows(sample, label, k) ==
    IF sample = <<>> THEN <<>>
    ELSE (IF Head(label) = k THEN <<Head(sample)>> ELSE <<>>)
            \o MaskRows(Tail(sample), Tail(label), k)

training_input(sample_train, label_train, training_size) ==
    [key \in Range(class_labels) |->
        PySlice(MaskRows(sample_train, label_train, LabelOf(key)), 0, training_size)]

test_input_overlapping(sample_train, label_train, sample_test, label_test, training_size, test_size) ==
    [key \in Range(class_labels) |->
        PySlice(MaskRows(sample_train, label_train, LabelOf(key)), 0, test_size)]

test_input_short(sample_train, label_train, sample_test, label_test, training_size, test_size) ==
    [key \in Range(class_labels) |->
        PySlice(MaskRows(sample_train, label_train, LabelOf(key)),
                training_size, test_size)]

\* Lines 55-56 slice sample_train[label_train == k]; sample_test and
\* label_test are not read.
test_input(sample_train, label_train, sample_test, label_test, training_size, test_size) ==
    [key \in Range(class_labels) |->
        PySlice(MaskRows(sample_train, label_train, LabelOf(key)),
                training_size, training_size + test_size)]

(***************************************************************************)
(* Wine(training_size, test_size, n) on the base dataset d: what the call  *)
(* returns, with the locals the claims are about.  raised = TRUE stands    *)
(* for the call ending in an exception of the library.                     *)
(***************************************************************************)
WineRaised == [raised |-> TRUE]

\* Lines 34-46: the split, the standardization and the reduction, for a
\* test_size and an n the library accepts.
WineReduced(d, test_size) ==
    LET split == train_test_split(d, test_size)
        std_scale == StandardScalerFit(StdFitInput(split.sample_train, split.sample_test))
        train1 == StandardScalerTransform(std_scale, split.sample_train)
        test1 == StandardScalerTransform(std_scale, split.sample_test)
        pca == PCAFit(PCAFitInput(train1, test1))
    IN  [split |-> split,
         std_scale |-> std_scale,
         pca |-> pca,
         sample_train |-> PCATransform(pca, train1),
         sample_test |-> PCATransform(pca, test1)]

Wine(d, training_size, test_size, n) ==
    IF SplitFails(Len(d), test_size) THEN WineRaised
    ELSE IF PCAFails(n, Len(d) - test_size, n_features) THEN WineRaised
    ELSE
    LET reduced == WineReduced(d, test_size)
        label_train == reduced.split.label_train
        label_test == reduced.split.label_test
        minmax_scale == MinMaxScalerFit(MinMaxFitSamples(reduced.sample_train,
                                                         reduced.sample_test))
        sample_train == MinMaxScalerTransform(minmax_scale, reduced.sample_train)
        sample_test == MinMaxScalerTransform(minmax_scale, reduced.sample_test)
    IN  [raised |-> FALSE,
         split |-> reduced.split,
         std_scale |-> reduced.std_scale,
         pca |-> reduced.pca,
         minmax_scale |-> minmax_scale,
         sample_train |-> sample_train,
         sample_test |-> sample_test,
         label_train |-> label_train,
         training_input |-> training_input(sample_train, label_train, training_size),
         test_input |-> test_input(sample_train, label_train, sample_test, label_test,
                                   training_size, test_size),
         class_labels |-> class_labels]

(***************************************************************************)
(* The base dataset: load_wine lists its rows class by class.  The model   *)
(* lists the rows of a class by value: perm7 is any permutation, so every  *)
(* order of the rows of a class reaches the split all the same.            *)
(***************************************************************************)
Rows == [label : 0..(NumClasses - 1), x : 0..MaxVal]

Datasets(N) ==
    {d \in [1..N -> Rows] :
        \A i \in 1..(N - 1) :
            \/ d[i].label < d[i + 1].label
            \/ d[i].label = d[i + 1].label /\ d[i].x <= d[i + 1].x}

\* The datasets of N rows with the values 0, 1, .. MaxVal in turn.
PatternedDatasets(N) ==
    {d \in [1..N -> Rows] :
        /\ \A i \in 1..(N - 1) : d[i].label <= d[i + 1].label
        /\ \A i \in 1..N : d[i].x = i % (MaxVal + 1)}

\* Datasets in which every class has two rows and one class a third, so that
\* every class can give a row to each partition after a row is held out.
BalancedRows == 2 * NumClasses + 1

BalancedDatasets ==
    {d \in PatternedDatasets(BalancedRows) :
        \A k \in 0..(NumClasses - 1) :
            Cardinality({i \in 1..BalancedRows : d[i].label = k}) >= 2}

NoCall == [calls |-> 0]

\* The numpy random state: as the process starts (0), or as
\* np.random.seed(random_seed) leaves it.
Seeds == {0, random_seed}

\* The numbers of components Wine is called with: the number of features of
\* a row, which PCA accepts, and one more, which it rejects.
Dims == {n_features, n_features + 1}

\* No notebook runs: Wine is called on its own.
NotebookIdle ==
    /\ example = "none"
    /\ nb_pc = "idle"
    /\ nb_env = <<>>
    /\ nb_calls = <<>>
    /\ nb_out = <<>>

Init ==
    /\ \E N \in 1..MaxRows :
          /\ data \in Datasets(N)
          /\ perm7 \in Permutations(1..N)
    /\ np_state \in Seeds
    /\ cur = NoCall
    /\ repeated = FALSE
    /\ NotebookIdle

InitPatterned ==
    /\ \E N \in 1..MaxRows :
          /\ data \in PatternedDatasets(N)
          /\ perm7 \in Permutations(1..N)
    /\ np_state \in Seeds
    /\ cur = NoCall
    /\ repeated = FALSE
    /\ NotebookIdle

InitBalanced ==
    /\ data \in BalancedDatasets
    /\ perm7 \in Permutations(1..BalancedRows)
    /\ np_state \in Seeds
    /\ cur = NoCall
    /\ repeated = FALSE
    /\ NotebookIdle

\* A call of Wine.
CallWine(training_size, test_size, n) ==
    /\ cur.calls < MaxCalls
    /\ cur' = [calls |-> cur.calls + 1,
               training_size |-> training_size, test_size |-> test_size, n |-> n,
               out |-> Wine(data, training_size, test_size, n)]
    /\ repeated' = (/\ cur.calls > 0
                    /\ cur.training_size = training_size
                    /\ cur.test_size = test_size
                    /\ cur.n = n)
    /\ UNCHANGED <<data, perm7, np_state>>
    /\ UNCHANGED nb_vars

\* np.random.seed(random_seed).
NpRandomSeed(seed) ==
    /\ np_state' = seed
    /\ np_state' # np_state
    /\ UNCHANGED wine_vars
    /\ UNCHANGED nb_vars

\* One call of Wine, on any arguments.
Next ==
    \E training_size \in 0..MaxSize, test_size \in 0..MaxRows, n \in Dims :
        cur = NoCall /\ CallWine(training_size, test_size, n)

\* Calls of Wine one after the other, the numpy seed set in between.
NextRepeat ==
    \/ \E training_size \in 0..MaxSize, test_size \in 0..MaxRows, n \in Dims :
          CallWine(training_size, test_size, n)
    \/ \E seed \in Seeds : NpRandomSeed(seed)

Spec == Init /\ [][Next]_vars

SpecRepeat == InitPatterned /\ [][NextRepeat]_vars

SpecPatterned == InitPatterned /\ [][Next]_vars

SpecBalanced == InitBalanced /\ [][Next]_vars

(***************************************************************************)
(* The notebooks.  A notebook is run from its first cell to its last; an   *)
(* exception that no statement catches ends the run.  Neither notebook     *)
(* holds a try statement.                                                  *)
(***************************************************************************)
Unset == [unset |-> TRUE]

\* Where the run goes when the statement before next_pc raises, were the
\* exception caught and dropped.
AfterRaiseSwallowed(next_pc) == next_pc

\* Where the run goes when the statement before next_pc raises.
AfterRaise(next_pc) == "failed"

(***************************************************************************)
(* Example A, the cell of lines 73-101: Wine on the 178 rows of load_wine. *)
(* With 178 rows the split is kept by what the slicing reads of it: the    *)
(* number of rows of each class it holds out.  The values are kept by one  *)
(* column of the reduced data: the least, one other and the greatest value *)
(* of the training subset and the least and the greatest of the testing    *)
(* subset, which is all the min-max rescaling of a column reads.           *)
(***************************************************************************)
\* load_wine: 59, 71 and 48 rows of the classes 0, 1, 2, of 13 features.
wine_class_sizes == <<59, 71, 48>>
wine_n_features == 13

\* Len(s[lo:hi]) for a sequence of n elements.
PySliceLen(n, lo, hi) == Max(0, Min(hi, n) - lo)

training_input_count(c_train, training_size) ==
    [key \in Range(class_labels) |-> PySliceLen(c_train[LabelOf(key)], 0, training_size)]

test_input_count_heldout(c_train, c_test, training_size, test_size) ==
    [key \in Range(class_labels) |-> PySliceLen(c_test[LabelOf(key)], 0, test_size)]

\* Lines 55-56: the slice [training_size : training_size + test_size] of
\* the rows of the class in sample_train.
test_input_count(c_train, c_test, training_size, test_size) ==
    [key \in Range(class_labels) |->
        PySliceLen(c_train[LabelOf(key)], training_size, training_size + test_size)]

\* The splits of the rows by class: how many rows of each class are held out.
Heldouts(class_sizes, test_size) ==
    {h \in [0..(NumClasses - 1) -> 0..test_size] :
        /\ SumSeq([k \in 1..NumClasses |-> h[k - 1]]) = test_size
        /\ \A k \in 0..(NumClasses - 1) : h[k] <= class_sizes[k + 1]}

Column(vs) == [i \in 1..Len(vs) |-> [row |-> 0, v |-> vs[i]]]

Columns ==
    {[train |-> Column(<<lo, mid, hi>>), test |-> Column(<<tlo, thi>>)] :
        lo \in -MaxAbs..MaxAbs, mid \in -MaxAbs..MaxAbs, hi \in -MaxAbs..MaxAbs,
        tlo \in -MaxAbs..MaxAbs, thi \in -MaxAbs..MaxAbs}

WineOnCounts(class_sizes, heldout, column, training_size, test_size, n) ==
    LET n_samples == SumSeq(class_sizes)
    IN  IF SplitFails(n_samples, test_size) THEN WineRaised
        ELSE IF PCAFails(n, n_samples - test_size, wine_n_features) THEN WineRaised
        ELSE
        LET c_train == [k \in 0..(NumClasses - 1) |-> class_sizes[k + 1] - heldout[k]]
            minmax_scale == MinMaxScalerFit(MinMaxFitSamples(column.train, column.test))
        IN  [raised |-> FALSE,
             heldout |-> heldout,
             vector_len |-> n,
             column_train |-> Values(MinMaxScalerTransform(minmax_scale, column.train)),
             column_test |-> Values(MinMaxScalerTransform(minmax_scale, column.test)),
             training_input |-> training_input_count(c_train, training_size),
             test_input |-> test_input_count(c_train, heldout, training_size, test_size),
             class_labels |-> class_labels]

\* ClassificationInput(training_input, test_input), line 93.
ClassificationInput(training_dataset, test_dataset) ==
    [training_dataset |-> training_dataset, test_dataset |-> test_dataset]

\* params, lines 94-101.
params ==
    [problem |-> [name |-> "classification", random_seed |-> random_seed],
     algorithm |-> [name |-> "VQC"],
     backend |-> [provider |-> "qiskit.BasicAer", name |-> "statevector_simulator"],
     optimizer |-> [name |-> "COBYLA", maxiter |-> 200],
     variational_form |-> [name |-> "RYRZ", depth |-> 3],
     feature_map |-> [name |-> "None"]]

\* The feature maps of lines 125 and 151.
cell3_feature_map == "RawFeatureVector"
cell4_feature_map_same == "RawFeatureVector"
cell4_feature_map == "SecondOrderExpansion"

\* What run_algorithm does is the library's: it returns a result record with
\* a testing accuracy, or it raises.
RunOutcomes ==
    {[ok |-> FALSE, result |-> Unset]}
        \cup {[ok |-> TRUE, result |-> [testing_accuracy |-> a]] : a \in 0..MaxAcc}

A_Setup ==
    /\ example = "A"
    /\ nb_pc = "A:setup"
    /\ np_state' = random_seed
    /\ \E heldout \in Heldouts(wine_class_sizes, testing_dataset_size), column \in Columns :
          /\ \A i \in 1..2 : column.train[i].v <= column.train[i + 1].v
          /\ column.test[1].v <= column.test[2].v
          /\ LET out == WineOnCounts(wine_class_sizes, heldout, column,
                                     training_dataset_size, testing_dataset_size,
                                     feature_dim)
             IN  IF out.raised
                 THEN /\ nb_pc' = AfterRaise("A:set1")
                      /\ UNCHANGED nb_env
                 ELSE /\ nb_pc' = "A:set1"
                      /\ nb_env' = [wine |-> out,
                                    training_input |-> out.training_input,
                                    test_input |-> out.test_input,
                                    class_labels |-> out.class_labels,
                                    classification_input |->
                                        ClassificationInput(out.training_input,
                                                            out.test_input),
                                    params |-> params,
                                    result |-> Unset]
    /\ UNCHANGED <<example, nb_calls, nb_out>>
    /\ UNCHANGED wine_vars

\* params['feature_map']['name'] = name
A_SetFeatureMap(at, name, next_pc) ==
    /\ example = "A"
    /\ nb_pc = at
    /\ nb_env' = [nb_env EXCEPT !.params.feature_map.name = name]
    /\ nb_pc' = next_pc
    /\ UNCHANGED <<example, nb_calls, nb_out, np_state>>
    /\ UNCHANGED wine_vars

\* result = run_algorithm(params, classification_input)
A_RunAlgorithm(at, next_pc) ==
    /\ example = "A"
    /\ nb_pc = at
    /\ \E outcome \in RunOutcomes :
          /\ nb_calls' = Append(nb_calls,
                [entry |-> "run_algorithm",
                 config |-> nb_env.params,
                 input |-> nb_env.classification_input,
                 ok |-> outcome.ok,
                 result |-> outcome.result])
          /\ IF outcome.ok
             THEN /\ nb_env' = [nb_env EXCEPT !.result =
                                   [value |-> outcome.result, call |-> Len(nb_calls')]]
                  /\ nb_pc' = next_pc
             ELSE /\ UNCHANGED nb_env
                  /\ nb_pc' = AfterRaise(next_pc)
    /\ UNCHANGED <<example, nb_out, np_state>>
    /\ UNCHANGED wine_vars

\* print(text, result['testing_accuracy']); a name that was never bound
\* raises.
A_PrintAccuracy(at, text, next_pc) ==
    /\ example = "A"
    /\ nb_pc = at
    /\ IF nb_env.result = Unset
       THEN /\ nb_pc' = AfterRaise(next_pc)
            /\ UNCHANGED nb_out
       ELSE /\ nb_out' = Append(nb_out,
                [text |-> text,
                 value |-> nb_env.result.value.testing_accuracy,
                 call |-> nb_env.result.call])
            /\ nb_pc' = next_pc
    /\ UNCHANGED <<example, nb_env, nb_calls, np_state>>
    /\ UNCHANGED wine_vars

(***************************************************************************)
(* Example B, declarative_approach.ipynb.                                  *)
(***************************************************************************)
qiskit_chemistry_dict ==
    [driver |-> [name |-> "HDF5"],
     HDF5 |-> [hdf5_input |-> "H2/0.7_sto-3g.hdf5"],
     operator |-> [name |-> "hamiltonian"],
     algorithm |-> [name |-> "VQE"],
     optimizer |-> [name |-> "COBYLA"],
     variational_form |-> [name |-> "UCCSD"],
     initial_state |-> [name |-> "HartreeFock"]]

\* What solver.run does is the library's: it returns a result record with an
\* energy and a printable report, or it raises.
SolverOutcomes ==
    {[ok |-> FALSE, result |-> Unset]}
        \cup {[ok |-> TRUE,
               result |-> [energy |-> e, printable |-> [i \in 1..n |-> i]]] :
                 e \in 0..MaxEnergy, n \in 0..MaxLines}

EnvB == [backend |-> Unset, qiskit_chemistry_dict |-> Unset, result |-> Unset, line |-> 0]

\* backend = Aer.get_backend('statevector_simulator')
B_GetBackend ==
    /\ example = "B"
    /\ nb_pc = "B:backend"
    /\ nb_env' = [nb_env EXCEPT !.backend = "statevector_simulator"]
    /\ nb_pc' = "B:dict"
    /\ UNCHANGED <<example, nb_calls, nb_out, np_state>>
    /\ UNCHANGED wine_vars

\* qiskit_chemistry_dict = {...}
B_Dict ==
    /\ example = "B"
    /\ nb_pc = "B:dict"
    /\ nb_env' = [nb_env EXCEPT !.qiskit_chemistry_dict = qiskit_chemistry_dict]
    /\ nb_pc' = "B:run"
    /\ UNCHANGED <<example, nb_calls, nb_out, np_state>>
    /\ UNCHANGED wine_vars

\* solver = QiskitChemistry(); result = solver.run(qiskit_chemistry_dict, backend=backend)
B_Run ==
    /\ example = "B"
    /\ nb_pc = "B:run"
    /\ \E outcome \in SolverOutcomes :
          /\ nb_calls' = Append(nb_calls,
                [entry |-> "solver.run",
                 config |-> nb_env.qiskit_chemistry_dict,
                 input |-> nb_env.backend,
                 ok |-> outcome.ok,
                 result |-> outcome.result])
          /\ IF outcome.ok
             THEN /\ nb_env' = [nb_env EXCEPT !.result =
                                   [value |-> outcome.result, call |-> Len(nb_calls')]]
                  /\ nb_pc' = "B:print_energy"
             ELSE /\ UNCHANGED nb_env
                  /\ nb_pc' = AfterRaise("B:print_energy")
    /\ UNCHANGED <<example, nb_out, np_state>>
    /\ UNCHANGED wine_vars

\* print('Ground state energy: {}'.format(result['energy']))
B_PrintEnergy ==
    /\ example = "B"
    /\ nb_pc = "B:print_energy"
    /\ IF nb_env.result = Unset
       THEN /\ nb_pc' = AfterRaise("B:print_lines")
            /\ UNCHANGED <<nb_out, nb_env>>
       ELSE /\ nb_out' = Append(nb_out,
                [text |-> "Ground state energy: ",
                 value |-> nb_env.result.value.energy,
                 call |-> nb_env.result.call])
            /\ nb_env' = [nb_env EXCEPT !.line = 1]
            /\ nb_pc' = "B:print_lines"
    /\ UNCHANGED <<example, nb_calls, np_state>>
    /\ UNCHANGED wine_vars

\* for line in result['printable']: print(line)
B_PrintLine ==
    /\ example = "B"
    /\ nb_pc = "B:print_lines"
    /\ IF nb_env.result = Unset
       THEN /\ nb_pc' = AfterRaise("done")
            /\ UNCHANGED <<nb_out, nb_env>>
       ELSE IF nb_env.line <= Len(nb_env.result.value.printable)
       THEN /\ nb_out' = Append(nb_out,
                [text |-> "",
                 value |-> nb_env.result.value.printable[nb_env.line],
                 call |-> nb_env.result.call])
            /\ nb_env' = [nb_env EXCEPT !.line = nb_env.line + 1]
            /\ UNCHANGED nb_pc
       ELSE /\ nb_pc' = "done"
            /\ UNCHANGED <<nb_out, nb_env>>
    /\ UNCHANGED <<example, nb_calls, np_state>>
    /\ UNCHANGED wine_vars

InitExamples ==
    /\ data = <<>>
    /\ perm7 = <<>>
    /\ np_state \in Seeds
    /\ cur = NoCall
    /\ repeated = FALSE
    /\ example \in {"A", "B"}
    /\ nb_pc = IF example = "A" THEN "A:setup" ELSE "B:backend"
    /\ nb_env = IF example = "A" THEN Unset ELSE EnvB
    /\ nb_calls = <<>>
    /\ nb_out = <<>>

NextExamples ==
    \/ A_Setup
    \/ A_SetFeatureMap("A:set1", cell3_feature_map, "A:run1")
    \/ A_RunAlgorithm("A:run1", "A:print1")
    \/ A_PrintAccuracy("A:print1", "VQC accuracy with RawFeatureVector: ", "A:set2")
    \/ A_SetFeatureMap("A:set2", cell4_feature_map, "A:run2")
    \/ A_RunAlgorithm("A:run2", "A:print2")
    \/ A_PrintAccuracy("A:print2", "Test accuracy with SecondOrderExpansion: ", "done")
    \/ B_GetBackend
    \/ B_Dict
    \/ B_Run
    \/ B_PrintEnergy
    \/ B_PrintLine

SpecExamples == InitExamples /\ [][NextExamples]_vars

(***************************************************************************)
(* What the claims speak of.                                               *)
(***************************************************************************)
Called == cur.calls > 0
Returned == Called /\ ~cur.out.raised
Keys == Range(class_labels)
RowsOf(sample) == {sample[i].row : i \in 1..Len(sample)}
PartitionRows(partition) == UNION {RowsOf(partition[key]) : key \in DOMAIN partition}
InRange(v) == v.den > 0 /\ -v.den <= v.num /\ v.num <= v.den

\* The rows of class k in the training subset of the split that holds out
\* test_size rows.
TrainCount(test_size, k) ==
    Cardinality({i \in (test_size + 1)..Len(data) : data[perm7[i]].label = k})

\* The requested sizes are within the available per-class counts.
WithinCounts ==
    \A k \in 0..(NumClasses - 1) :
        TrainCount(cur.test_size, k) >= cur.training_size + cur.test_size

\* Both partitions hold exactly the requested number of vectors of every
\* class, each vector a row of that class, and share no row.
ExactAndDisjoint ==
    /\ ~cur.out.raised
    /\ \A key \in Keys :
          /\ Len(cur.out.training_input[key]) = cur.training_size
          /\ Len(cur.out.test_input[key]) = cur.test_size
          /\ \A r \in RowsOf(cur.out.training_input[key])
                    \cup RowsOf(cur.out.test_input[key]) :
                data[r].label = LabelOf(key)
    /\ PartitionRows(cur.out.training_input)
          \cap PartitionRows(cur.out.test_input) = {}

\* C1, as amended: for training_size >= 0, test_size >= 1 and a number of
\* components n that PCA accepts, all within the available per-class counts,
\* Wine returns partitions with exactly training_size and test_size vectors
\* of every class, and no row of the base dataset is in both partitions.
C1_ExactSizesDisjoint ==
    (/\ Called
     /\ cur.test_size >= 1
     /\ ~PCAFails(cur.n, Len(data) - cur.test_size, n_features)
     /\ WithinCounts)
        => ExactAndDisjoint

\* C1 as claimed: the same for every training_size >= 0 and test_size >= 0.
C1_AsClaimed == (Called /\ WithinCounts) => ExactAndDisjoint

C1_Witness ==
    /\ Returned
    /\ cur.training_size = 1
    /\ cur.test_size = 1
    /\ WithinCounts

\* C2 as claimed: every vector of the training partition is a row of the
\* training subset of the split, and every vector of the testing partition
\* is a row of its held-out testing subset, never of the training subset.
C2_AsClaimed ==
    Returned =>
        /\ PartitionRows(cur.out.training_input) \subseteq RowsOf(cur.out.split.sample_train)
        /\ PartitionRows(cur.out.test_input) \subseteq RowsOf(cur.out.split.sample_test)
        /\ PartitionRows(cur.out.test_input) \cap RowsOf(cur.out.split.sample_train) = {}

\* C4: after the min-max rescaling every value of the training partition, of
\* the testing partition, of the returned training subset and of the rescaled
\* testing subset lies in [-1, 1].
C4_ValuesInRange ==
    Returned =>
        /\ \A key \in Keys :
              /\ \A i \in 1..Len(cur.out.training_input[key]) :
                    InRange(cur.out.training_input[key][i].v)
              /\ \A i \in 1..Len(cur.out.test_input[key]) :
                    InRange(cur.out.test_input[key][i].v)
        /\ \A i \in 1..Len(cur.out.sample_train) : InRange(cur.out.sample_train[i].v)
        /\ \A i \in 1..Len(cur.out.sample_test) : InRange(cur.out.sample_test[i].v)

\* A value strictly inside the range in the training partition, beside a
\* testing partition that is not empty.
C4_Witness ==
    /\ Returned
    /\ \E key \in Keys : \E i \in 1..Len(cur.out.training_input[key]) :
          LET v == cur.out.training_input[key][i].v
          IN  -v.den < v.num /\ v.num < v.den
    /\ PartitionRows(cur.out.test_input) # {}

TestVariants ==
    LET held == {perm7[i] : i \in 1..cur.test_size}
    IN  {[i \in 1..Len(data) |-> IF i \in held THEN f[i] ELSE data[i]] :
            f \in [held -> Rows]}

\* C6: the fitted standardization and the fitted reduction are those of
\* every run that differs in the contents of the held-out testing subset
\* only.
C6_NoTestLeak ==
    Returned =>
        \A d \in TestVariants :
            LET other == WineReduced(d, cur.test_size)
            IN  /\ other.std_scale = cur.out.std_scale
                /\ other.pca = cur.out.pca

\* A run whose held-out rows differ, and with them the testing subset it
\* standardizes and reduces.
C6_Witness ==
    /\ Returned
    /\ \E d \in TestVariants :
          LET other == WineReduced(d, cur.test_size)
          IN  /\ other.split.sample_test # cur.out.split.sample_test
              /\ other.sample_test # WineReduced(data, cur.test_size).sample_test

\* Every class label is a key of both partitions; the slices of a class of
\* c rows hold min(training_size, c) and max(0, min(test_size, c - training_size))
\* rows and share none.
Truncated ==
    /\ ~cur.out.raised
    /\ DOMAIN cur.out.training_input = Keys
    /\ DOMAIN cur.out.test_input = Keys
    /\ \A key \in Keys :
          LET c == Len(MaskRows(cur.out.sample_train, cur.out.label_train, LabelOf(key)))
          IN  /\ Len(cur.out.training_input[key]) = Min(cur.training_size, c)
              /\ Len(cur.out.test_input[key])
                    = Max(0, Min(cur.test_size, c - cur.training_size))
              /\ RowsOf(cur.out.training_input[key])
                    \cap RowsOf(cur.out.test_input[key]) = {}

\* C10, as amended: for 1 <= test_size < the number of rows of the base
\* dataset and a number of components n that PCA accepts, Wine raises no
\* error and truncates silently.
C10_SilentTruncation ==
    (/\ Called
     /\ cur.test_size >= 1
     /\ cur.test_size < Len(data)
     /\ ~PCAFails(cur.n, Len(data) - cur.test_size, n_features))
        => Truncated

\* C10 as claimed: for every training_size >= 0 and test_size >= 0.
C10_AsClaimed == Called => Truncated

\* A class with fewer rows than requested: its training slice is short.
C10_Witness ==
    /\ Returned
    /\ \E key \in Keys :
          /\ Len(cur.out.training_input[key]) > 0
          /\ Len(cur.out.training_input[key]) < cur.training_size

(***************************************************************************)
(* The claims about the notebooks.                                         *)
(***************************************************************************)
RECURSIVE SumOver(_, _)
SumOver(f, S) ==
    IF S = {} THEN 0
    ELSE LET x == CHOOSE y \in S : TRUE IN f[x] + SumOver(f, S \ {x})

\* C3: in Example A, once the setup cell has run, the training partition has
\* 20 vectors of each class (60 in all) and the testing partition 10 of each
\* class (30 in all), every vector has length 4 and every value lies in
\* [-1, 1], whatever rows the split holds out.
C3_ExampleAPartitions ==
    (example = "A" /\ nb_pc # "A:setup") =>
        /\ nb_env # Unset
        /\ DOMAIN nb_env.training_input = Keys
        /\ DOMAIN nb_env.test_input = Keys
        /\ \A key \in Keys :
              /\ nb_env.training_input[key] = 20
              /\ nb_env.test_input[key] = 10
        /\ SumOver(nb_env.training_input, Keys) = 60
        /\ SumOver(nb_env.test_input, Keys) = 30
        /\ nb_env.wine.vector_len = 4
        /\ \A i \in 1..Len(nb_env.wine.column_train) : InRange(nb_env.wine.column_train[i])

\* The split holds out ten rows of class C, and a value of the training
\* subset lies strictly inside the range.
C3_Witness ==
    /\ example = "A"
    /\ nb_pc = "A:set1"
    /\ nb_env.wine.heldout[2] = 10
    /\ \E i \in 1..Len(nb_env.wine.column_train) :
          LET v == nb_env.wine.column_train[i]
          IN  -v.den < v.num /\ v.num < v.den

ExpectedFeatureMaps == <<"RawFeatureVector", "SecondOrderExpansion">>

\* C7: Example A runs the algorithm with RawFeatureVector and then with
\* SecondOrderExpansion, and no more; each run gets the dataset that
\* ClassificationInput built from Wine's output and the configuration params
\* with the feature map's name set; the accuracy of a run is printed before
\* the next run starts; a run that reaches its end has made both runs and
\* printed both accuracies.
C7_TwoRunsInOrder ==
    example = "A" =>
        /\ Len(nb_calls) <= 2
        /\ \A i \in 1..Len(nb_calls) :
              /\ nb_calls[i].entry = "run_algorithm"
              /\ nb_calls[i].config =
                    [params EXCEPT !.feature_map.name = ExpectedFeatureMaps[i]]
              /\ nb_calls[i].input = nb_env.classification_input
              /\ nb_calls[i].input =
                    ClassificationInput(nb_env.training_input, nb_env.test_input)
        /\ Len(nb_out) <= Len(nb_calls)
        /\ Len(nb_out) >= Len(nb_calls) - 1
        /\ \A j \in 1..Len(nb_out) :
              /\ nb_out[j].call = j
              /\ nb_calls[j].ok
              /\ nb_out[j].value = nb_calls[j].result.testing_accuracy
        /\ nb_pc = "done" => (Len(nb_calls) = 2 /\ Len(nb_out) = 2)

C7_Witness ==
    /\ example = "A"
    /\ nb_pc = "done"
    /\ nb_out[1].value # nb_out[2].value

\* C8: no run entry point is invoked twice with one configuration; an
\* invocation that fails is the last one, ends the run, and nothing of its
\* result is printed; a run that has ended takes no further step.
C8_FailurePropagates ==
    /\ \A i \in 1..Len(nb_calls) : \A j \in 1..Len(nb_calls) :
          (i # j /\ nb_calls[i].entry = nb_calls[j].entry)
              => nb_calls[i].config # nb_calls[j].config
    /\ \A i \in 1..Len(nb_calls) :
          ~nb_calls[i].ok =>
              /\ i = Len(nb_calls)
              /\ nb_pc = "failed"
              /\ \A j \in 1..Len(nb_out) : nb_out[j].call # i
    /\ \A j \in 1..Len(nb_out) : nb_calls[nb_out[j].call].ok
    /\ nb_pc = "failed" => ~ENABLED NextExamples

\* The second run of Example A failed after the first accuracy was printed.
C8_Witness ==
    /\ example = "A"
    /\ nb_pc = "failed"
    /\ Len(nb_calls) = 2
    /\ Len(nb_out) = 1

====
